---------------------------- MODULE Spec2Model ----------------------------
(***************************************************************************)
(* Model of the windowed layout transforms of caffe2/utils/math_cpu.cc:    *)
(* Im2col and Col2im for the NCHW (channel-major) and NHWC (channel-minor) *)
(* storage orders, with the three NCHW paths (block copy, equal padding,   *)
(* baseline) translated loop by loop.                                      *)
(*                                                                         *)
(* A buffer is a function from 0..n-1 to Int.  A float is modelled by an   *)
(* integer, so that sums do not depend on the order of the additions.      *)
(* A read outside the source buffer yields `junk` (whatever the memory     *)
(* next to the buffer holds); a write outside the destination buffer       *)
(* leaves the buffer alone.  Every access is appended to a log.            *)
(***************************************************************************)
EXTENDS Integers, Sequences, FiniteSets, TLC

VARIABLES
    d,          \* the window descriptor of the calls
    data_im,    \* the caller's signal buffer (source of Im2col)
    data_col,   \* the caller's column buffer (source of Col2im)
    col_out,    \* destination column buffer of Im2col
    im_out,     \* destination signal buffer of Col2im
    order,      \* the storage order the caller works in: "NCHW" or "NHWC"
    hist,       \* the calls made so far, in order
    log,        \* the accesses of the last call, in order
    ptr_out,    \* the running data_col pointer of the last call at its return
    path_out,   \* results of the three NCHW paths, each run on its own
    sizes,      \* the output sizes computed for d, once computed
    check,      \* the last bounds test made: its arguments and its result
    run,        \* a call executed loop test by loop test: position, counters
    sel         \* a call of Select: its arguments, its reads, its outcome

vars ==
    <<d, order, data_im, data_col, col_out, im_out, hist, log, ptr_out,
      path_out, sizes, check, run, sel>>

---------------------------------------------------------------------------
(* Bounds of the model *)

MaxChannels == 2
MaxSize == 3
MaxKernel == 2
MaxDilation == 2
MaxPad == 1
MaxStride == 2
MaxCalls == 2
MaxIm == 9
MaxCol == 16
MaxOffset == 1
MaxN == 2
MaxD == 3

---------------------------------------------------------------------------
(* C integer arithmetic *)

\* int / int with a positive divisor: truncation toward zero
CDiv(a, b) == IF a >= 0 THEN a \div b ELSE -((-a) \div b)

\* int % int with a positive divisor: sign of the dividend
CMod(a, b) == a - b * CDiv(a, b)

\* mutant: a cast that keeps the low 31 bits only
ToUnsignedLow31(a) == IF a >= 0 THEN <<0, a>> ELSE <<0, (a + 2147483647) + 1>>

\* static_cast<unsigned>(a) of a 32-bit int, as <<top bit, low 31 bits>>
ToUnsigned(a) == IF a >= 0 THEN <<0, a>> ELSE <<1, (a + 2147483647) + 1>>

\* unsigned < unsigned
UnsignedLess(u, v) == u[1] < v[1] \/ (u[1] = v[1] /\ u[2] < v[2])

\* mutant: the comparison made on the signed values, without the casts
SignedLess(a, b) == a < b

is_a_ge_zero_and_a_lt_b(a, b) == UnsignedLess(ToUnsigned(a), ToUnsigned(b))

---------------------------------------------------------------------------
(* Buffers and the access log *)

InBuf(buf, i) == i \in DOMAIN buf

\* *(p + i) as an rvalue
Load(buf, i, jnk) == IF InBuf(buf, i) THEN buf[i] ELSE jnk

\* the running state of a call: destination buffer, access log, and the
\* two moving pointers (as offsets) of the pointer-walking loops
NewRun(buf) == [buf |-> buf, log |-> <<>>, ptr |-> 0, base |-> 0]

\* *(p + i) = v
Store(st, i, v) ==
    [st EXCEPT !.buf = IF InBuf(@, i) THEN [@ EXCEPT ![i] = v] ELSE @,
               !.log = Append(@, <<"wr", i>>)]

\* *(p + i) += v
AddTo(st, i, v) ==
    [st EXCEPT !.buf = IF InBuf(@, i) THEN [@ EXCEPT ![i] = @ + v] ELSE @,
               !.log = Append(@, <<"add", i>>)]

\* the read of the source buffer at i, logged
Note(st, i) == [st EXCEPT !.log = Append(@, <<"rd", i>>)]

\* sequencing: the statement that produced st1 completes before `rest` runs
Then(st1, rest) == IF st1.ptr = st1.ptr THEN rest ELSE rest

\* memcpy(dst + dstoff, src + srcoff, sizeof(float) * n), from element i on
RECURSIVE Memcpy(_, _, _, _, _, _, _)
Memcpy(st, dstoff, src, srcoff, n, jnk, i) ==
    IF i < n
    THEN LET st1 == Store(Note(st, srcoff + i), dstoff + i,
                          Load(src, srcoff + i, jnk))
         IN  Then(st1, Memcpy(st1, dstoff, src, srcoff, n, jnk, i + 1))
    ELSE st

\* memset(dst + dstoff, 0, sizeof(float) * n), from element i on
RECURSIVE Memset0(_, _, _, _)
Memset0(st, dstoff, n, i) ==
    IF i < n
    THEN LET st1 == Store(st, dstoff + i, 0)
         IN  Then(st1, Memset0(st1, dstoff, n, i + 1))
    ELSE st

\* Set<float, CPUContext>(N, alpha, Y): Y[0..N-1] = alpha, from element i on
RECURSIVE Set(_, _, _, _)
Set(st, N, alpha, i) ==
    IF i < N
    THEN LET st1 == Store(st, i, alpha)
         IN  Then(st1, Set(st1, N, alpha, i + 1))
    ELSE st

\* no call of Select
NoSelect ==
    [N |-> 0, D |-> 0, x |-> <<>>, idx |-> <<>>, y |-> <<>>,
     dcheck |-> FALSE, reads |-> <<>>, status |-> "idle"]

\* the position and the loop variables of a call that has not started
IdleRun ==
    [pc |-> "idle", op |-> "none", visits |-> 0,
     channel |-> 0, kernel_row |-> 0, kernel_col |-> 0, output_rows |-> 0,
     output_cols |-> 0, output_col |-> 0, input_row |-> 0, input_col |-> 0,
     k |-> 0, y |-> 0, x |-> 0, i |-> 0, c |-> 0, h |-> 0, w |-> 0,
     ih |-> 0, iw |-> 0, h_pad |-> 0, w_pad |-> 0]

---------------------------------------------------------------------------
(* Output sizes, as the transforms compute them *)

\* mutant: the row count computed with the stride of the columns
output_h_by_stride_w(dd) ==
    CDiv(dd.height + dd.pad_b + dd.pad_t
           - (dd.dilation_h * (dd.kernel_h - 1) + 1), dd.stride_w) + 1

\* Im2col/Col2im NCHW, first lines
output_h(dd) ==
    CDiv(dd.height + dd.pad_b + dd.pad_t
           - (dd.dilation_h * (dd.kernel_h - 1) + 1), dd.stride_h) + 1

output_w(dd) ==
    CDiv(dd.width + dd.pad_l + dd.pad_r
           - (dd.dilation_w * (dd.kernel_w - 1) + 1), dd.stride_w) + 1

\* the baseline paths and the NHWC transforms
dkernel_h(dd) == dd.dilation_h * (dd.kernel_h - 1) + 1
dkernel_w(dd) == dd.dilation_w * (dd.kernel_w - 1) + 1

height_col(dd) ==
    CDiv(dd.height + dd.pad_t + dd.pad_b - dkernel_h(dd), dd.stride_h) + 1

width_col(dd) ==
    CDiv(dd.width + dd.pad_l + dd.pad_r - dkernel_w(dd), dd.stride_w) + 1

---------------------------------------------------------------------------
(* Im2col<float, CPUContext, StorageOrder::NCHW> *)

\* the dispatch conditions of Im2col and Col2im NCHW
ZeroPadNoDilation(dd) ==
    /\ dd.dilation_h = 1 /\ dd.dilation_w = 1
    /\ dd.pad_l = 0 /\ dd.pad_r = 0 /\ dd.pad_t = 0 /\ dd.pad_b = 0

EqualPadding(dd) == dd.pad_l = dd.pad_r /\ dd.pad_t = dd.pad_b

\* fast path for zero padding and no dilation: for (x = 0; x < output_w; x++)
RECURSIVE Im2colBlockX(_, _, _, _, _, _, _, _, _, _)
Im2colBlockX(dd, im, jnk, st, dst, src, y, iy, ix, x) ==
    IF x < output_w(dd)
    THEN LET st1 == Memcpy(st, dst + (y * output_w(dd) + x), im,
                           src + (iy * dd.width + ix + x * dd.stride_w),
                           1, jnk, 0)
         IN  Then(st1, Im2colBlockX(dd, im, jnk, st1, dst, src, y, iy, ix,
                                    x + 1))
    ELSE st

\* mutant: the kernel row and the kernel column are swapped
RECURSIVE Im2colBlockYSwapped(_, _, _, _, _, _, _, _, _)
Im2colBlockYSwapped(dd, im, jnk, st, dst, src, kh, kw, y) ==
    IF y < output_h(dd)
    THEN LET iy == y * dd.stride_h + kw
             ix == kh
             st1 == IF dd.stride_w = 1
                    THEN Memcpy(st, dst + (y * output_w(dd)), im,
                                src + (iy * dd.width + ix),
                                output_w(dd), jnk, 0)
                    ELSE Im2colBlockX(dd, im, jnk, st, dst, src, y, iy, ix, 0)
         IN  Then(st1, Im2colBlockYSwapped(dd, im, jnk, st1, dst, src, kh, kw,
                                           y + 1))
    ELSE st

\* for (y = 0; y < output_h; y++)
RECURSIVE Im2colBlockY(_, _, _, _, _, _, _, _, _)
Im2colBlockY(dd, im, jnk, st, dst, src, kh, kw, y) ==
    IF y < output_h(dd)
    THEN LET iy == y * dd.stride_h + kh
             ix == kw
             st1 == IF dd.stride_w = 1
                    THEN Memcpy(st, dst + (y * output_w(dd)), im,
                                src + (iy * dd.width + ix),
                                output_w(dd), jnk, 0)
                    ELSE Im2colBlockX(dd, im, jnk, st, dst, src, y, iy, ix, 0)
         IN  Then(st1, Im2colBlockY(dd, im, jnk, st1, dst, src, kh, kw,
                                    y + 1))
    ELSE st

\* for (k = 0; k < channels * kernel_h * kernel_w; k++)
RECURSIVE Im2colBlockK(_, _, _, _, _)
Im2colBlockK(dd, im, jnk, st, k) ==
    IF k < dd.channels * dd.kernel_h * dd.kernel_w
    THEN LET nip == CDiv(k, dd.kernel_h * dd.kernel_w)
             rest == CMod(k, dd.kernel_h * dd.kernel_w)
             kh == CDiv(rest, dd.kernel_w)
             kw == CMod(rest, dd.kernel_w)
             dst == nip * (dd.kernel_h * dd.kernel_w * output_h(dd) * output_w(dd))
                      + kh * (dd.kernel_w * output_h(dd) * output_w(dd))
                      + kw * (output_h(dd) * output_w(dd))
             src == nip * (dd.height * dd.width)
             st1 == Im2colBlockY(dd, im, jnk, st, dst, src, kh, kw, 0)
         IN  Then(st1, Im2colBlockK(dd, im, jnk, st1, k + 1))
    ELSE st

Im2colBlockPath(dd, im, jnk, st) == Im2colBlockK(dd, im, jnk, st, 0)

\* mutant: a row outside the image is skipped, as Col2im skips it
Im2colPadZeroRowSkip(st, output_cols) == [st EXCEPT !.ptr = @ + output_cols]

\* fast path for equal padding: the zero run of a row outside the image,
\* for (output_cols = output_w; output_cols; output_cols--) *(data_col++) = 0
RECURSIVE Im2colPadZeroRow(_, _)
Im2colPadZeroRow(st, output_cols) ==
    IF output_cols # 0
    THEN LET st1 == [Store(st, st.ptr, 0) EXCEPT !.ptr = @ + 1]
         IN  Then(st1, Im2colPadZeroRow(st1, output_cols - 1))
    ELSE st

\* mutant: the column loop steps the input column by 1, not by stride_w
RECURSIVE Im2colPadColsUnitStep(_, _, _, _, _, _, _)
Im2colPadColsUnitStep(dd, im, jnk, st, input_row, input_col, output_col) ==
    IF output_col # 0
    THEN LET at == st.base + input_row * dd.width + input_col
             st1 == IF is_a_ge_zero_and_a_lt_b(input_col, dd.width)
                    THEN Store(Note(st, at), st.ptr, Load(im, at, jnk))
                    ELSE Store(st, st.ptr, 0)
             st2 == [st1 EXCEPT !.ptr = @ + 1]
         IN  Then(st2, Im2colPadColsUnitStep(dd, im, jnk, st2, input_row,
                                             input_col + 1, output_col - 1))
    ELSE st

\* for (output_col = output_w; output_col; output_col--)
RECURSIVE Im2colPadCols(_, _, _, _, _, _, _)
Im2colPadCols(dd, im, jnk, st, input_row, input_col, output_col) ==
    IF output_col # 0
    THEN LET at == st.base + input_row * dd.width + input_col
             st1 == IF is_a_ge_zero_and_a_lt_b(input_col, dd.width)
                    THEN Store(Note(st, at), st.ptr, Load(im, at, jnk))
                    ELSE Store(st, st.ptr, 0)
             st2 == [st1 EXCEPT !.ptr = @ + 1]
         IN  Then(st2, Im2colPadCols(dd, im, jnk, st2, input_row,
                                     input_col + dd.stride_w, output_col - 1))
    ELSE st

\* for (output_rows = output_h; output_rows; output_rows--)
RECURSIVE Im2colPadRows(_, _, _, _, _, _, _)
Im2colPadRows(dd, im, jnk, st, kernel_col, input_row, output_rows) ==
    IF output_rows # 0
    THEN LET st1 == IF ~is_a_ge_zero_and_a_lt_b(input_row, dd.height)
                    THEN Im2colPadZeroRow(st, output_w(dd))
                    ELSE Im2colPadCols(dd, im, jnk, st, input_row,
                                       -dd.pad_l + kernel_col * dd.dilation_w,
                                       output_w(dd))
         IN  Then(st1, Im2colPadRows(dd, im, jnk, st1, kernel_col,
                                     input_row + dd.stride_h, output_rows - 1))
    ELSE st

\* for (kernel_col = 0; kernel_col < kernel_w; kernel_col++)
RECURSIVE Im2colPadKernelCols(_, _, _, _, _, _)
Im2colPadKernelCols(dd, im, jnk, st, kernel_row, kernel_col) ==
    IF kernel_col < dd.kernel_w
    THEN LET st1 == Im2colPadRows(dd, im, jnk, st, kernel_col,
                                  -dd.pad_t + kernel_row * dd.dilation_h,
                                  output_h(dd))
         IN  Then(st1, Im2colPadKernelCols(dd, im, jnk, st1, kernel_row,
                                           kernel_col + 1))
    ELSE st

\* for (kernel_row = 0; kernel_row < kernel_h; kernel_row++)
RECURSIVE Im2colPadKernelRows(_, _, _, _, _)
Im2colPadKernelRows(dd, im, jnk, st, kernel_row) ==
    IF kernel_row < dd.kernel_h
    THEN LET st1 == Im2colPadKernelCols(dd, im, jnk, st, kernel_row, 0)
         IN  Then(st1, Im2colPadKernelRows(dd, im, jnk, st1, kernel_row + 1))
    ELSE st

\* for (channel = channels; channel--; data_im += channel_size)
RECURSIVE Im2colPadChannels(_, _, _, _, _)
Im2colPadChannels(dd, im, jnk, st, channel) ==
    IF channel # 0
    THEN LET st1 == [Im2colPadKernelRows(dd, im, jnk, st, 0)
                       EXCEPT !.base = @ + dd.height * dd.width]
         IN  Then(st1, Im2colPadChannels(dd, im, jnk, st1, channel - 1))
    ELSE st

Im2colEqualPadPath(dd, im, jnk, st) ==
    Im2colPadChannels(dd, im, jnk, st, dd.channels)

\* baseline: for (w = 0; w < width_col; ++w)
RECURSIVE Im2colBaseW(_, _, _, _, _, _, _)
Im2colBaseW(dd, im, jnk, st, c, h, w) ==
    IF w < width_col(dd)
    THEN LET w_offset == CMod(c, dd.kernel_w)
             h_offset == CMod(CDiv(c, dd.kernel_w), dd.kernel_h)
             c_im == CDiv(CDiv(c, dd.kernel_h), dd.kernel_w)
             h_pad == h * dd.stride_h - dd.pad_t + h_offset * dd.dilation_h
             w_pad == w * dd.stride_w - dd.pad_l + w_offset * dd.dilation_w
             to == (c * height_col(dd) + h) * width_col(dd) + w
             at == (c_im * dd.height + h_pad) * dd.width + w_pad
             st1 == IF h_pad >= 0 /\ h_pad < dd.height
                       /\ w_pad >= 0 /\ w_pad < dd.width
                    THEN Store(Note(st, at), to, Load(im, at, jnk))
                    ELSE Store(st, to, 0)
         IN  Then(st1, Im2colBaseW(dd, im, jnk, st1, c, h, w + 1))
    ELSE st

\* for (h = 0; h < height_col; ++h)
RECURSIVE Im2colBaseH(_, _, _, _, _, _)
Im2colBaseH(dd, im, jnk, st, c, h) ==
    IF h < height_col(dd)
    THEN LET st1 == Im2colBaseW(dd, im, jnk, st, c, h, 0)
         IN  Then(st1, Im2colBaseH(dd, im, jnk, st1, c, h + 1))
    ELSE st

\* for (c = 0; c < channels_col; ++c)
RECURSIVE Im2colBaseC(_, _, _, _, _)
Im2colBaseC(dd, im, jnk, st, c) ==
    IF c < dd.channels * dd.kernel_h * dd.kernel_w
    THEN LET st1 == Im2colBaseH(dd, im, jnk, st, c, 0)
         IN  Then(st1, Im2colBaseC(dd, im, jnk, st1, c + 1))
    ELSE st

Im2colBaselinePath(dd, im, jnk, st) == Im2colBaseC(dd, im, jnk, st, 0)

\* the whole function: the dispatch among the three paths
Im2colNCHW(dd, im, jnk, col) ==
    IF ZeroPadNoDilation(dd) THEN Im2colBlockPath(dd, im, jnk, NewRun(col))
    ELSE IF EqualPadding(dd) THEN Im2colEqualPadPath(dd, im, jnk, NewRun(col))
    ELSE Im2colBaselinePath(dd, im, jnk, NewRun(col))

---------------------------------------------------------------------------
(* Im2col<float, CPUContext, StorageOrder::NHWC> *)

\* for (iw = w_pad; iw < w_pad + dkernel_w; iw += dilation_w)
RECURSIVE Im2colNHWCIw(_, _, _, _, _, _, _)
Im2colNHWCIw(dd, im, jnk, st, w_pad, ih, iw) ==
    IF iw < w_pad + dkernel_w(dd)
    THEN LET st1 == IF ih >= 0 /\ ih < dd.height /\ iw >= 0 /\ iw < dd.width
                    THEN Memcpy(st, st.ptr, im,
                                (ih * dd.width + iw) * dd.channels,
                                dd.channels, jnk, 0)
                    ELSE Memset0(st, st.ptr, dd.channels, 0)
             st2 == [st1 EXCEPT !.ptr = @ + dd.channels]
         IN  Then(st2, Im2colNHWCIw(dd, im, jnk, st2, w_pad, ih,
                                    iw + dd.dilation_w))
    ELSE st

\* for (ih = h_pad; ih < h_pad + dkernel_h; ih += dilation_h)
RECURSIVE Im2colNHWCIh(_, _, _, _, _, _, _)
Im2colNHWCIh(dd, im, jnk, st, h_pad, w_pad, ih) ==
    IF ih < h_pad + dkernel_h(dd)
    THEN LET st1 == Im2colNHWCIw(dd, im, jnk, st, w_pad, ih, w_pad)
         IN  Then(st1, Im2colNHWCIh(dd, im, jnk, st1, h_pad, w_pad,
                                    ih + dd.dilation_h))
    ELSE st

\* for (w = 0; w < width_col; ++w), w_pad += stride_w
RECURSIVE Im2colNHWCW(_, _, _, _, _, _, _)
Im2colNHWCW(dd, im, jnk, st, h_pad, w_pad, w) ==
    IF w < width_col(dd)
    THEN LET st1 == Im2colNHWCIh(dd, im, jnk, st, h_pad, w_pad, h_pad)
         IN  Then(st1, Im2colNHWCW(dd, im, jnk, st1, h_pad,
                                   w_pad + dd.stride_w, w + 1))
    ELSE st

\* for (h = 0; h < height_col; ++h), h_pad += stride_h
RECURSIVE Im2colNHWCH(_, _, _, _, _, _)
Im2colNHWCH(dd, im, jnk, st, h_pad, h) ==
    IF h < height_col(dd)
    THEN LET st1 == Im2colNHWCW(dd, im, jnk, st, h_pad, -dd.pad_l, 0)
         IN  Then(st1, Im2colNHWCH(dd, im, jnk, st1, h_pad + dd.stride_h,
                                   h + 1))
    ELSE st

\* mutant: the row scan starts at 0, not at -pad_t
Im2colNHWCNoTopPad(dd, im, jnk, col) ==
    Im2colNHWCH(dd, im, jnk, NewRun(col), 0, 0)

Im2colNHWC(dd, im, jnk, col) ==
    Im2colNHWCH(dd, im, jnk, NewRun(col), -dd.pad_t, 0)

---------------------------------------------------------------------------
(* Col2im<float, CPUContext, StorageOrder::NCHW> *)

\* mutant: the block path assigns where it has to add
RECURSIVE Col2imBlockIAssign(_, _, _, _, _, _, _)
Col2imBlockIAssign(dd, col, jnk, st, offsrc, offdst, i) ==
    IF i < output_w(dd)
    THEN LET st1 == Store(Note(st, offdst + i), offsrc + i,
                          Load(col, offdst + i, jnk))
         IN  Then(st1, Col2imBlockIAssign(dd, col, jnk, st1, offsrc, offdst,
                                          i + 1))
    ELSE st

\* fast path for zero padding and no dilation, stride_w == 1:
\* for (i = 0; i < output_w; ++i) offsrc[i] += offdst[i]
RECURSIVE Col2imBlockI(_, _, _, _, _, _, _)
Col2imBlockI(dd, col, jnk, st, offsrc, offdst, i) ==
    IF i < output_w(dd)
    THEN LET st1 == AddTo(Note(st, offdst + i), offsrc + i,
                          Load(col, offdst + i, jnk))
         IN  Then(st1, Col2imBlockI(dd, col, jnk, st1, offsrc, offdst, i + 1))
    ELSE st

\* stride_w != 1: for (x = 0; x < output_w; x++) *offsrc += *offdst
RECURSIVE Col2imBlockX(_, _, _, _, _, _, _, _, _, _)
Col2imBlockX(dd, col, jnk, st, dst, src, y, iy, ix, x) ==
    IF x < output_w(dd)
    THEN LET offsrc == src + (iy * dd.width + ix + x * dd.stride_w)
             offdst == dst + (y * output_w(dd) + x)
             st1 == AddTo(Note(st, offdst), offsrc, Load(col, offdst, jnk))
         IN  Then(st1, Col2imBlockX(dd, col, jnk, st1, dst, src, y, iy, ix,
                                    x + 1))
    ELSE st

\* mutant: the kernel row is left out of the input row
RECURSIVE Col2imBlockYNoKernelRow(_, _, _, _, _, _, _, _, _)
Col2imBlockYNoKernelRow(dd, col, jnk, st, dst, src, kh, kw, y) ==
    IF y < output_h(dd)
    THEN LET iy == y * dd.stride_h
             ix == kw
             st1 == IF dd.stride_w = 1
                    THEN Col2imBlockI(dd, col, jnk, st,
                                      src + (iy * dd.width + ix),
                                      dst + (y * output_w(dd)), 0)
                    ELSE Col2imBlockX(dd, col, jnk, st, dst, src, y, iy, ix, 0)
         IN  Then(st1, Col2imBlockYNoKernelRow(dd, col, jnk, st1, dst, src,
                                               kh, kw, y + 1))
    ELSE st

\* for (y = 0; y < output_h; y++)
RECURSIVE Col2imBlockY(_, _, _, _, _, _, _, _, _)
Col2imBlockY(dd, col, jnk, st, dst, src, kh, kw, y) ==
    IF y < output_h(dd)
    THEN LET iy == y * dd.stride_h + kh
             ix == kw
             st1 == IF dd.stride_w = 1
                    THEN Col2imBlockI(dd, col, jnk, st,
                                      src + (iy * dd.width + ix),
                                      dst + (y * output_w(dd)), 0)
                    ELSE Col2imBlockX(dd, col, jnk, st, dst, src, y, iy, ix, 0)
         IN  Then(st1, Col2imBlockY(dd, col, jnk, st1, dst, src, kh, kw,
                                    y + 1))
    ELSE st

\* for (k = 0; k < channels * kernel_h * kernel_w; k++)
RECURSIVE Col2imBlockK(_, _, _, _, _)
Col2imBlockK(dd, col, jnk, st, k) ==
    IF k < dd.channels * dd.kernel_h * dd.kernel_w
    THEN LET nip == CDiv(k, dd.kernel_h * dd.kernel_w)
             rest == CMod(k, dd.kernel_h * dd.kernel_w)
             kh == CDiv(rest, dd.kernel_w)
             kw == CMod(rest, dd.kernel_w)
             dst == nip * (dd.kernel_h * dd.kernel_w * output_h(dd) * output_w(dd))
                      + kh * (dd.kernel_w * output_h(dd) * output_w(dd))
                      + kw * (output_h(dd) * output_w(dd))
             src == nip * (dd.height * dd.width)
             st1 == Col2imBlockY(dd, col, jnk, st, dst, src, kh, kw, 0)
         IN  Then(st1, Col2imBlockK(dd, col, jnk, st1, k + 1))
    ELSE st

Col2imBlockPath(dd, col, jnk, st) == Col2imBlockK(dd, col, jnk, st, 0)

\* fast path for equal padding: for (output_col = output_w; output_col; output_col--)
RECURSIVE Col2imPadCols(_, _, _, _, _, _, _)
Col2imPadCols(dd, col, jnk, st, input_row, input_col, output_col) ==
    IF output_col # 0
    THEN LET to == st.base + input_row * dd.width + input_col
             st1 == IF is_a_ge_zero_and_a_lt_b(input_col, dd.width)
                    THEN AddTo(Note(st, st.ptr), to, Load(col, st.ptr, jnk))
                    ELSE st
             st2 == [st1 EXCEPT !.ptr = @ + 1]
         IN  Then(st2, Col2imPadCols(dd, col, jnk, st2, input_row,
                                     input_col + dd.stride_w, output_col - 1))
    ELSE st

\* for (output_rows = output_h; output_rows; output_rows--)
RECURSIVE Col2imPadRows(_, _, _, _, _, _, _)
Col2imPadRows(dd, col, jnk, st, kernel_col, input_row, output_rows) ==
    IF output_rows # 0
    THEN LET st1 == IF ~is_a_ge_zero_and_a_lt_b(input_row, dd.height)
                    THEN [st EXCEPT !.ptr = @ + output_w(dd)]
                    ELSE Col2imPadCols(dd, col, jnk, st, input_row,
                                       -dd.pad_l + kernel_col * dd.dilation_w,
                                       output_w(dd))
         IN  Then(st1, Col2imPadRows(dd, col, jnk, st1, kernel_col,
                                     input_row + dd.stride_h, output_rows - 1))
    ELSE st

\* for (kernel_col = 0; kernel_col < kernel_w; kernel_col++)
RECURSIVE Col2imPadKernelCols(_, _, _, _, _, _)
Col2imPadKernelCols(dd, col, jnk, st, kernel_row, kernel_col) ==
    IF kernel_col < dd.kernel_w
    THEN LET st1 == Col2imPadRows(dd, col, jnk, st, kernel_col,
                                  -dd.pad_t + kernel_row * dd.dilation_h,
                                  output_h(dd))
         IN  Then(st1, Col2imPadKernelCols(dd, col, jnk, st1, kernel_row,
                                           kernel_col + 1))
    ELSE st

\* for (kernel_row = 0; kernel_row < kernel_h; kernel_row++)
RECURSIVE Col2imPadKernelRows(_, _, _, _, _)
Col2imPadKernelRows(dd, col, jnk, st, kernel_row) ==
    IF kernel_row < dd.kernel_h
    THEN LET st1 == Col2imPadKernelCols(dd, col, jnk, st, kernel_row, 0)
         IN  Then(st1, Col2imPadKernelRows(dd, col, jnk, st1, kernel_row + 1))
    ELSE st

\* mutant: every channel plane is zeroed again before its adds
RECURSIVE Col2imPadChannelsRezero(_, _, _, _, _)
Col2imPadChannelsRezero(dd, col, jnk, st, channel) ==
    IF channel # 0
    THEN LET st0 == Memset0(st, st.base, dd.height * dd.width, 0)
             st1 == [Col2imPadKernelRows(dd, col, jnk, st0, 0)
                       EXCEPT !.base = @ + dd.height * dd.width]
         IN  Then(st1, Col2imPadChannelsRezero(dd, col, jnk, st1, channel - 1))
    ELSE st

\* for (channel = channels; channel--; data_im += channel_size)
RECURSIVE Col2imPadChannels(_, _, _, _, _)
Col2imPadChannels(dd, col, jnk, st, channel) ==
    IF channel # 0
    THEN LET st1 == [Col2imPadKernelRows(dd, col, jnk, st, 0)
                       EXCEPT !.base = @ + dd.height * dd.width]
         IN  Then(st1, Col2imPadChannels(dd, col, jnk, st1, channel - 1))
    ELSE st

Col2imEqualPadPath(dd, col, jnk, st) ==
    Col2imPadChannels(dd, col, jnk, st, dd.channels)

\* fallback: for (w = 0; w < width_col; ++w)
RECURSIVE Col2imBaseW(_, _, _, _, _, _, _)
Col2imBaseW(dd, col, jnk, st, c, h, w) ==
    IF w < width_col(dd)
    THEN LET w_offset == CMod(c, dd.kernel_w)
             h_offset == CMod(CDiv(c, dd.kernel_w), dd.kernel_h)
             c_im == CDiv(CDiv(c, dd.kernel_h), dd.kernel_w)
             h_pad == h * dd.stride_h - dd.pad_t + h_offset * dd.dilation_h
             w_pad == w * dd.stride_w - dd.pad_l + w_offset * dd.dilation_w
             at == (c * height_col(dd) + h) * width_col(dd) + w
             to == (c_im * dd.height + h_pad) * dd.width + w_pad
             st1 == IF h_pad >= 0 /\ h_pad < dd.height
                       /\ w_pad >= 0 /\ w_pad < dd.width
                    THEN AddTo(Note(st, at), to, Load(col, at, jnk))
                    ELSE st
         IN  Then(st1, Col2imBaseW(dd, col, jnk, st1, c, h, w + 1))
    ELSE st

\* for (h = 0; h < height_col; ++h)
RECURSIVE Col2imBaseH(_, _, _, _, _, _)
Col2imBaseH(dd, col, jnk, st, c, h) ==
    IF h < height_col(dd)
    THEN LET st1 == Col2imBaseW(dd, col, jnk, st, c, h, 0)
         IN  Then(st1, Col2imBaseH(dd, col, jnk, st1, c, h + 1))
    ELSE st

\* for (c = 0; c < channels_col; ++c)
RECURSIVE Col2imBaseC(_, _, _, _, _)
Col2imBaseC(dd, col, jnk, st, c) ==
    IF c < dd.channels * dd.kernel_h * dd.kernel_w
    THEN LET st1 == Col2imBaseH(dd, col, jnk, st, c, 0)
         IN  Then(st1, Col2imBaseC(dd, col, jnk, st1, c + 1))
    ELSE st

Col2imFallbackPath(dd, col, jnk, st) == Col2imBaseC(dd, col, jnk, st, 0)

\* mutant: the zero fill covers one channel plane only
Col2imZeroFillOnePlane(dd, im) == Set(NewRun(im), dd.height * dd.width, 0, 0)

\* mutant: no zero fill
Col2imNoZeroFill(dd, im) == NewRun(im)

\* the zero fill that opens both Col2im transforms
Col2imZeroFill(dd, im) ==
    Set(NewRun(im), dd.height * dd.width * dd.channels, 0, 0)

\* the whole function: zero fill, then the dispatch among the three paths
Col2imNCHW(dd, col, jnk, im) ==
    LET st == Col2imZeroFill(dd, im)
    IN  IF ZeroPadNoDilation(dd) THEN Col2imBlockPath(dd, col, jnk, st)
        ELSE IF EqualPadding(dd) THEN Col2imEqualPadPath(dd, col, jnk, st)
        ELSE Col2imFallbackPath(dd, col, jnk, st)

---------------------------------------------------------------------------
(* Col2im<float, CPUContext, StorageOrder::NHWC> *)

\* mutant: the elementwise primitive copies b where it has to add a and b
RECURSIVE AddAssign(_, _, _, _, _, _)
AddAssign(st, N, patch, col, jnk, i) ==
    IF i < N
    THEN LET st1 == Store(Note(st, st.ptr + i), patch + i,
                          Load(col, st.ptr + i, jnk))
         IN  Then(st1, AddAssign(st1, N, patch, col, jnk, i + 1))
    ELSE st

\* Add<float, CPUContext>(N, a, b, y) with a = y = data_im + patch and
\* b = data_col: y[i] = a[i] + b[i], from element i on
RECURSIVE Add(_, _, _, _, _, _)
Add(st, N, patch, col, jnk, i) ==
    IF i < N
    THEN LET st1 == AddTo(Note(st, st.ptr + i), patch + i,
                          Load(col, st.ptr + i, jnk))
         IN  Then(st1, Add(st1, N, patch, col, jnk, i + 1))
    ELSE st

\* for (iw = w_pad; iw < w_pad + dkernel_w; iw += dilation_w)
RECURSIVE Col2imNHWCIw(_, _, _, _, _, _, _)
Col2imNHWCIw(dd, col, jnk, st, w_pad, ih, iw) ==
    IF iw < w_pad + dkernel_w(dd)
    THEN LET st1 == IF ih >= 0 /\ ih < dd.height /\ iw >= 0 /\ iw < dd.width
                    THEN Add(st, dd.channels,
                             (ih * dd.width + iw) * dd.channels, col, jnk, 0)
                    ELSE st
             st2 == [st1 EXCEPT !.ptr = @ + dd.channels]
         IN  Then(st2, Col2imNHWCIw(dd, col, jnk, st2, w_pad, ih,
                                    iw + dd.dilation_w))
    ELSE st

\* for (ih = h_pad; ih < h_pad + dkernel_h; ih += dilation_h)
RECURSIVE Col2imNHWCIh(_, _, _, _, _, _, _)
Col2imNHWCIh(dd, col, jnk, st, h_pad, w_pad, ih) ==
    IF ih < h_pad + dkernel_h(dd)
    THEN LET st1 == Col2imNHWCIw(dd, col, jnk, st, w_pad, ih, w_pad)
         IN  Then(st1, Col2imNHWCIh(dd, col, jnk, st1, h_pad, w_pad,
                                    ih + dd.dilation_h))
    ELSE st

\* for (w = 0; w < width_col; ++w), w_pad += stride_w
RECURSIVE Col2imNHWCW(_, _, _, _, _, _, _)
Col2imNHWCW(dd, col, jnk, st, h_pad, w_pad, w) ==
    IF w < width_col(dd)
    THEN LET st1 == Col2imNHWCIh(dd, col, jnk, st, h_pad, w_pad, h_pad)
         IN  Then(st1, Col2imNHWCW(dd, col, jnk, st1, h_pad,
                                   w_pad + dd.stride_w, w + 1))
    ELSE st

\* for (h = 0; h < height_col; ++h), h_pad += stride_h
RECURSIVE Col2imNHWCH(_, _, _, _, _, _)
Col2imNHWCH(dd, col, jnk, st, h_pad, h) ==
    IF h < height_col(dd)
    THEN LET st1 == Col2imNHWCW(dd, col, jnk, st, h_pad, -dd.pad_l, 0)
         IN  Then(st1, Col2imNHWCH(dd, col, jnk, st1, h_pad + dd.stride_h,
                                   h + 1))
    ELSE st

Col2imNHWC(dd, col, jnk, im) ==
    Col2imNHWCH(dd, col, jnk, Col2imZeroFill(dd, im), -dd.pad_t, 0)

---------------------------------------------------------------------------
(* The callers: descriptors, buffers, and the calls they make *)

Descriptors ==
    [channels : 1 .. MaxChannels,
     height : 1 .. MaxSize, width : 1 .. MaxSize,
     kernel_h : 1 .. MaxKernel, kernel_w : 1 .. MaxKernel,
     dilation_h : 1 .. MaxDilation, dilation_w : 1 .. MaxDilation,
     pad_t : 0 .. MaxPad, pad_l : 0 .. MaxPad,
     pad_b : 0 .. MaxPad, pad_r : 0 .. MaxPad,
     stride_h : 1 .. MaxStride, stride_w : 1 .. MaxStride]

\* the precondition of all four transforms: the computed output sizes are >= 1
Valid(dd) == output_h(dd) >= 1 /\ output_w(dd) >= 1

\* the sizes the caller allocates
ImSize(dd) == dd.channels * dd.height * dd.width
ColSize(dd) ==
    dd.channels * dd.kernel_h * dd.kernel_w * output_h(dd) * output_w(dd)

\* the descriptors the callers use: valid, with buffers of bounded size
CallerDescriptors ==
    {dd \in Descriptors :
        Valid(dd) /\ ImSize(dd) <= MaxIm /\ ColSize(dd) <= MaxCol}

\* buffer contents the callers start from
Ramp(n) == [i \in 0 .. n - 1 |-> i + 1]
Stale(n) == [i \in 0 .. n - 1 |-> 50 + i]

\* what a read outside the buffers can yield
Junk == {0, 77}

NoPaths == [block |-> <<>>, pad |-> <<>>, base |-> <<>>]

Init ==
    /\ d \in CallerDescriptors
    /\ order \in {"NCHW", "NHWC"}
    /\ data_im = Ramp(ImSize(d))
    /\ data_col = Ramp(ColSize(d))
    /\ col_out = Stale(ColSize(d))
    /\ im_out = Stale(ImSize(d))
    /\ hist = <<>>
    /\ log = <<>>
    /\ ptr_out = 0
    /\ path_out = NoPaths
    /\ sizes = <<>>
    /\ check = <<>>
    /\ run = IdleRun
    /\ sel = NoSelect

Call(op, src) == [op |-> op, src |-> src]

\* the column buffer a Col2im call reads: the caller's, or Im2col's output
ColSource(s) == IF s = "out" THEN col_out ELSE data_col

ColSources == IF \E i \in 1 .. Len(hist) : hist[i].src = "im"
              THEN {"col", "out"} ELSE {"col"}

CallIm2colNCHW ==
    /\ order = "NCHW"
    /\ Len(hist) < MaxCalls
    /\ \E jnk \in Junk :
         LET st == Im2colNCHW(d, data_im, jnk, col_out)
         IN  /\ col_out' = st.buf
             /\ log' = st.log
             /\ ptr_out' = st.ptr
    /\ hist' = Append(hist, Call("Im2colNCHW", "im"))
    /\ UNCHANGED <<d, order, data_im, data_col, im_out, path_out, sizes, check, run, sel>>

CallIm2colNHWC ==
    /\ order = "NHWC"
    /\ Len(hist) < MaxCalls
    /\ \E jnk \in Junk :
         LET st == Im2colNHWC(d, data_im, jnk, col_out)
         IN  /\ col_out' = st.buf
             /\ log' = st.log
             /\ ptr_out' = st.ptr
    /\ hist' = Append(hist, Call("Im2colNHWC", "im"))
    /\ UNCHANGED <<d, order, data_im, data_col, im_out, path_out, sizes, check, run, sel>>

CallCol2imNCHW ==
    /\ order = "NCHW"
    /\ Len(hist) < MaxCalls
    /\ \E s \in ColSources, jnk \in Junk :
         /\ LET st == Col2imNCHW(d, ColSource(s), jnk, im_out)
            IN  /\ im_out' = st.buf
                /\ log' = st.log
                /\ ptr_out' = st.ptr
         /\ hist' = Append(hist, Call("Col2imNCHW", s))
    /\ UNCHANGED <<d, order, data_im, data_col, col_out, path_out, sizes, check, run, sel>>

CallCol2imNHWC ==
    /\ order = "NHWC"
    /\ Len(hist) < MaxCalls
    /\ \E s \in ColSources, jnk \in Junk :
         /\ LET st == Col2imNHWC(d, ColSource(s), jnk, im_out)
            IN  /\ im_out' = st.buf
                /\ log' = st.log
                /\ ptr_out' = st.ptr
         /\ hist' = Append(hist, Call("Col2imNHWC", s))
    /\ UNCHANGED <<d, order, data_im, data_col, col_out, path_out, sizes, check, run, sel>>

Next ==
    \/ CallIm2colNCHW
    \/ CallIm2colNHWC
    \/ CallCol2imNCHW
    \/ CallCol2imNHWC

Spec == Init /\ [][Next]_vars

---------------------------------------------------------------------------
(* The three forward NCHW paths, each run on its own on the same input *)

\* lines 654-679 alone, on a descriptor that meets the path's condition
RunBlockPath ==
    /\ ZeroPadNoDilation(d)
    /\ path_out.block = <<>>
    /\ \E jnk \in Junk :
         path_out' = [path_out EXCEPT !.block =
             <<Im2colBlockPath(d, data_im, jnk, NewRun(col_out)).buf>>]
    /\ UNCHANGED <<d, order, data_im, data_col, col_out, im_out, hist, log, ptr_out, sizes, check, run, sel>>

\* lines 686-713 alone, on a descriptor that meets the path's condition
RunEqualPadPath ==
    /\ EqualPadding(d)
    /\ path_out.pad = <<>>
    /\ \E jnk \in Junk :
         path_out' = [path_out EXCEPT !.pad =
             <<Im2colEqualPadPath(d, data_im, jnk, NewRun(col_out)).buf>>]
    /\ UNCHANGED <<d, order, data_im, data_col, col_out, im_out, hist, log, ptr_out, sizes, check, run, sel>>

\* lines 718-740 alone
RunBaselinePath ==
    /\ path_out.base = <<>>
    /\ \E jnk \in Junk :
         path_out' = [path_out EXCEPT !.base =
             <<Im2colBaselinePath(d, data_im, jnk, NewRun(col_out)).buf>>]
    /\ UNCHANGED <<d, order, data_im, data_col, col_out, im_out, hist, log, ptr_out, sizes, check, run, sel>>

InitPaths == Init /\ order = "NCHW"

NextPaths == RunBlockPath \/ RunEqualPadPath \/ RunBaselinePath

SpecPaths == InitPaths /\ [][NextPaths]_vars

---------------------------------------------------------------------------
(* The NCHW transforms on a one-channel 4 x 4 image, kernel up to 2 x 2 *)

Scenario ==
    [channels |-> 1, height |-> 4, width |-> 4, kernel_h |-> 2, kernel_w |-> 2,
     dilation_h |-> 1, dilation_w |-> 1, pad_t |-> 0, pad_l |-> 0,
     pad_b |-> 0, pad_r |-> 0, stride_h |-> 1, stride_w |-> 1]

ScenarioDescriptors ==
    {[Scenario EXCEPT !.kernel_h = k[1], !.kernel_w = k[2],
                      !.stride_h = t[1], !.stride_w = t[2]] :
        k \in (1 .. MaxKernel) \X (1 .. MaxKernel),
        t \in (1 .. MaxStride) \X (1 .. MaxStride)}

\* buffer contents of the scenario's callers: a ramp from `first`, a constant
RampFrom(n, first) == [i \in 0 .. n - 1 |-> first + i]
Filled(n, v) == [i \in 0 .. n - 1 |-> v]

InitScenario ==
    /\ d \in {dd \in ScenarioDescriptors : Valid(dd)}
    /\ order = "NCHW"
    /\ \E first \in 0 .. MaxOffset : data_im = RampFrom(ImSize(d), first)
    /\ \E v \in 1 .. MaxOffset + 1 : data_col = Filled(ColSize(d), v)
    /\ col_out = Stale(ColSize(d))
    /\ im_out = Stale(ImSize(d))
    /\ hist = <<>>
    /\ log = <<>>
    /\ ptr_out = 0
    /\ path_out = NoPaths
    /\ sizes = <<>>
    /\ check = <<>>
    /\ run = IdleRun
    /\ sel = NoSelect

NextScenario == CallIm2colNCHW \/ CallCol2imNCHW

SpecScenario == InitScenario /\ [][NextScenario]_vars

---------------------------------------------------------------------------
(* The output sizes on their own: the first lines of the transforms, on any *)
(* descriptor a caller can pass, and on the same descriptor with more input *)

SizeDescriptors ==
    [channels : {1},
     height : 0 .. MaxSize, width : 0 .. MaxSize,
     kernel_h : 1 .. MaxKernel, kernel_w : 1 .. MaxKernel,
     dilation_h : 1 .. MaxDilation, dilation_w : 1 .. MaxDilation,
     pad_t : 0 .. MaxPad, pad_l : 0 .. MaxPad,
     pad_b : 0 .. MaxPad, pad_r : 0 .. MaxPad,
     stride_h : 1 .. MaxStride, stride_w : 1 .. MaxStride]

\* the four sizes the transforms compute from a descriptor
ComputedSizes(dd) ==
    [output_h |-> output_h(dd), output_w |-> output_w(dd),
     height_col |-> height_col(dd), width_col |-> width_col(dd)]

InitSizes ==
    /\ d \in SizeDescriptors
    /\ order = "NCHW"
    /\ data_im = <<>> /\ data_col = <<>>
    /\ col_out = <<>> /\ im_out = <<>>
    /\ hist = <<>> /\ log = <<>> /\ ptr_out = 0
    /\ path_out = NoPaths
    /\ sizes = <<>>
    /\ check = <<>>
    /\ run = IdleRun
    /\ sel = NoSelect

ComputeSizes ==
    /\ sizes = <<>>
    /\ sizes' = <<ComputedSizes(d)>>
    /\ UNCHANGED <<d, order, data_im, data_col, col_out, im_out, hist, log, ptr_out,
                   path_out, check, run, sel>>

\* the caller comes back with a taller or wider input, by up to one stride
ResizeAndCompute ==
    /\ sizes # <<>>
    /\ d.height <= MaxSize /\ d.width <= MaxSize
    /\ \E gh \in 0 .. d.stride_h, gw \in 0 .. d.stride_w :
         /\ gh + gw > 0
         /\ d' = [d EXCEPT !.height = @ + gh, !.width = @ + gw]
         /\ sizes' = <<ComputedSizes(d')>>
    /\ UNCHANGED <<order, data_im, data_col, col_out, im_out, hist, log, ptr_out,
                   path_out, check, run, sel>>

NextSizes == ComputeSizes \/ ResizeAndCompute

SpecSizes == InitSizes /\ [][NextSizes]_vars

---------------------------------------------------------------------------
(* The bounds test on its own, on 32-bit arguments *)

IntMax == 2147483647
IntMin == -IntMax - 1
HalfMax == IntMax \div 2

\* the values of a: around 0, and at the ends and the middle of the range
CheckedInts ==
    (-(MaxSize + 1) .. (MaxSize + 1))
        \cup {IntMin, IntMin + 1, -HalfMax - 1, HalfMax + 1, IntMax - 1, IntMax}

\* the values of b: a height or a width, never negative
CheckedSizes == {b \in CheckedInts : b >= 0}

UnitDescriptor ==
    [channels |-> 1, height |-> 1, width |-> 1, kernel_h |-> 1, kernel_w |-> 1,
     dilation_h |-> 1, dilation_w |-> 1, pad_t |-> 0, pad_l |-> 0,
     pad_b |-> 0, pad_r |-> 0, stride_h |-> 1, stride_w |-> 1]

InitCheck ==
    /\ d = UnitDescriptor
    /\ order = "NCHW"
    /\ data_im = <<>> /\ data_col = <<>>
    /\ col_out = <<>> /\ im_out = <<>>
    /\ hist = <<>> /\ log = <<>> /\ ptr_out = 0
    /\ path_out = NoPaths
    /\ sizes = <<>>
    /\ check = <<>>
    /\ run = IdleRun
    /\ sel = NoSelect

BoundsCheck ==
    /\ \E a \in CheckedInts, b \in CheckedSizes :
         check' = <<[a |-> a, b |-> b,
                     result |-> is_a_ge_zero_and_a_lt_b(a, b)]>>
    /\ UNCHANGED <<d, order, data_im, data_col, col_out, im_out, hist, log, ptr_out,
                   path_out, sizes, run, sel>>

NextCheck == BoundsCheck

SpecCheck == InitCheck /\ [][NextCheck]_vars

---------------------------------------------------------------------------
(* The loop nests of the four transforms, one loop test per step.  A call   *)
(* of Im2col or Col2im walks the nest its layout and its descriptor select; *)
(* `visits` counts the column entries the walk has passed.                  *)

\* entry of Im2col / Col2im: the dispatch, and the first loop initialised
EnterNest(dd, ord, op) ==
    IF ord = "NHWC"
    THEN [IdleRun EXCEPT !.op = op, !.pc = "h", !.h = 0, !.h_pad = -dd.pad_t]
    ELSE IF ZeroPadNoDilation(dd)
    THEN [IdleRun EXCEPT !.op = op, !.pc = "k", !.k = 0]
    ELSE IF EqualPadding(dd)
    THEN [IdleRun EXCEPT !.op = op, !.pc = "channel", !.channel = dd.channels]
    ELSE [IdleRun EXCEPT !.op = op, !.pc = "c", !.c = 0]

\* block path: for (k = 0; k < channels * kernel_h * kernel_w; k++)
LoopK(dd, r) ==
    IF r.k < dd.channels * dd.kernel_h * dd.kernel_w
    THEN [r EXCEPT !.y = 0, !.pc = "y"]
    ELSE [r EXCEPT !.pc = "done"]

\* for (y = 0; y < output_h; y++): one memcpy of output_w entries (Im2col,
\* stride_w == 1), or the loop over i (Col2im), or the loop over x
LoopY(dd, r) ==
    IF r.y < output_h(dd)
    THEN IF dd.stride_w = 1
         THEN IF r.op = "Im2col"
              THEN [r EXCEPT !.visits = @ + output_w(dd), !.y = @ + 1]
              ELSE [r EXCEPT !.i = 0, !.pc = "i"]
         ELSE [r EXCEPT !.x = 0, !.pc = "x"]
    ELSE [r EXCEPT !.k = @ + 1, !.pc = "k"]

\* Col2im, stride_w == 1: for (i = 0; i < output_w; ++i)
LoopI(dd, r) ==
    IF r.i < output_w(dd)
    THEN [r EXCEPT !.visits = @ + 1, !.i = @ + 1]
    ELSE [r EXCEPT !.y = @ + 1, !.pc = "y"]

\* for (x = 0; x < output_w; x++)
LoopX(dd, r) ==
    IF r.x < output_w(dd)
    THEN [r EXCEPT !.visits = @ + 1, !.x = @ + 1]
    ELSE [r EXCEPT !.y = @ + 1, !.pc = "y"]

\* mutant: the channel count is decremented before it is tested
LoopChannelPreDecrement(dd, r) ==
    IF r.channel - 1 # 0
    THEN [r EXCEPT !.channel = @ - 1, !.kernel_row = 0, !.pc = "kernel_row"]
    ELSE [r EXCEPT !.channel = @ - 1, !.pc = "done"]

\* equal padding: for (channel = channels; channel--; ...)
LoopChannel(dd, r) ==
    IF r.channel # 0
    THEN [r EXCEPT !.channel = @ - 1, !.kernel_row = 0, !.pc = "kernel_row"]
    ELSE [r EXCEPT !.channel = @ - 1, !.pc = "done"]

\* for (kernel_row = 0; kernel_row < kernel_h; kernel_row++)
LoopKernelRow(dd, r) ==
    IF r.kernel_row < dd.kernel_h
    THEN [r EXCEPT !.kernel_col = 0, !.pc = "kernel_col"]
    ELSE [r EXCEPT !.pc = "channel"]

\* for (kernel_col = 0; kernel_col < kernel_w; kernel_col++)
LoopKernelCol(dd, r) ==
    IF r.kernel_col < dd.kernel_w
    THEN [r EXCEPT !.input_row = -dd.pad_t + r.kernel_row * dd.dilation_h,
                   !.output_rows = output_h(dd), !.pc = "output_rows"]
    ELSE [r EXCEPT !.kernel_row = @ + 1, !.pc = "kernel_row"]

\* for (output_rows = output_h; output_rows; output_rows--): a row outside
\* the image is a run of zeros (Im2col) or data_col += output_w (Col2im)
LoopOutputRows(dd, r) ==
    IF r.output_rows # 0
    THEN IF ~is_a_ge_zero_and_a_lt_b(r.input_row, dd.height)
         THEN IF r.op = "Im2col"
              THEN [r EXCEPT !.output_cols = output_w(dd), !.pc = "output_cols"]
              ELSE [r EXCEPT !.visits = @ + output_w(dd),
                             !.input_row = @ + dd.stride_h,
                             !.output_rows = @ - 1]
         ELSE [r EXCEPT !.input_col = -dd.pad_l + r.kernel_col * dd.dilation_w,
                        !.output_col = output_w(dd), !.pc = "output_col"]
    ELSE [r EXCEPT !.kernel_col = @ + 1, !.pc = "kernel_col"]

\* for (output_cols = output_w; output_cols; output_cols--)
LoopOutputCols(dd, r) ==
    IF r.output_cols # 0
    THEN [r EXCEPT !.visits = @ + 1, !.output_cols = @ - 1]
    ELSE [r EXCEPT !.input_row = @ + dd.stride_h, !.output_rows = @ - 1,
                   !.pc = "output_rows"]

\* for (output_col = output_w; output_col; output_col--)
LoopOutputCol(dd, r) ==
    IF r.output_col # 0
    THEN [r EXCEPT !.visits = @ + 1, !.input_col = @ + dd.stride_w,
                   !.output_col = @ - 1]
    ELSE [r EXCEPT !.input_row = @ + dd.stride_h, !.output_rows = @ - 1,
                   !.pc = "output_rows"]

\* baseline: for (c = 0; c < channels_col; ++c)
LoopC(dd, r) ==
    IF r.c < dd.channels * dd.kernel_h * dd.kernel_w
    THEN [r EXCEPT !.h = 0, !.pc = "base_h"]
    ELSE [r EXCEPT !.pc = "done"]

\* for (h = 0; h < height_col; ++h)
LoopBaseH(dd, r) ==
    IF r.h < height_col(dd)
    THEN [r EXCEPT !.w = 0, !.pc = "base_w"]
    ELSE [r EXCEPT !.c = @ + 1, !.pc = "c"]

\* for (w = 0; w < width_col; ++w)
LoopBaseW(dd, r) ==
    IF r.w < width_col(dd)
    THEN [r EXCEPT !.visits = @ + 1, !.w = @ + 1]
    ELSE [r EXCEPT !.h = @ + 1, !.pc = "base_h"]

\* NHWC: for (h = 0; h < height_col; ++h)
LoopH(dd, r) ==
    IF r.h < height_col(dd)
    THEN [r EXCEPT !.w_pad = -dd.pad_l, !.w = 0, !.pc = "w"]
    ELSE [r EXCEPT !.pc = "done"]

\* for (w = 0; w < width_col; ++w)
LoopW(dd, r) ==
    IF r.w < width_col(dd)
    THEN [r EXCEPT !.ih = r.h_pad, !.pc = "ih"]
    ELSE [r EXCEPT !.h_pad = @ + dd.stride_h, !.h = @ + 1, !.pc = "h"]

\* for (ih = h_pad; ih < h_pad + dkernel_h; ih += dilation_h)
LoopIh(dd, r) ==
    IF r.ih < r.h_pad + dkernel_h(dd)
    THEN [r EXCEPT !.iw = r.w_pad, !.pc = "iw"]
    ELSE [r EXCEPT !.w_pad = @ + dd.stride_w, !.w = @ + 1, !.pc = "w"]

\* for (iw = w_pad; iw < w_pad + dkernel_w; iw += dilation_w): the body
\* passes `channels` column entries
LoopIw(dd, r) ==
    IF r.iw < r.w_pad + dkernel_w(dd)
    THEN [r EXCEPT !.visits = @ + dd.channels, !.iw = @ + dd.dilation_w]
    ELSE [r EXCEPT !.ih = @ + dd.dilation_h, !.pc = "ih"]

OnlyRunChanges ==
    UNCHANGED <<d, order, data_im, data_col, col_out, im_out, hist, log,
                ptr_out, path_out, sizes, check, sel>>

EnterCall ==
    /\ run.pc = "idle"
    /\ \E op \in {"Im2col", "Col2im"} : run' = EnterNest(d, order, op)
    /\ OnlyRunChanges

StepK == run.pc = "k" /\ run' = LoopK(d, run) /\ OnlyRunChanges
StepY == run.pc = "y" /\ run' = LoopY(d, run) /\ OnlyRunChanges
StepI == run.pc = "i" /\ run' = LoopI(d, run) /\ OnlyRunChanges
StepX == run.pc = "x" /\ run' = LoopX(d, run) /\ OnlyRunChanges
StepChannel ==
    run.pc = "channel" /\ run' = LoopChannel(d, run) /\ OnlyRunChanges
StepKernelRow ==
    run.pc = "kernel_row" /\ run' = LoopKernelRow(d, run) /\ OnlyRunChanges
StepKernelCol ==
    run.pc = "kernel_col" /\ run' = LoopKernelCol(d, run) /\ OnlyRunChanges
StepOutputRows ==
    run.pc = "output_rows" /\ run' = LoopOutputRows(d, run) /\ OnlyRunChanges
StepOutputCols ==
    run.pc = "output_cols" /\ run' = LoopOutputCols(d, run) /\ OnlyRunChanges
StepOutputCol ==
    run.pc = "output_col" /\ run' = LoopOutputCol(d, run) /\ OnlyRunChanges
StepC == run.pc = "c" /\ run' = LoopC(d, run) /\ OnlyRunChanges
StepBaseH == run.pc = "base_h" /\ run' = LoopBaseH(d, run) /\ OnlyRunChanges
StepBaseW == run.pc = "base_w" /\ run' = LoopBaseW(d, run) /\ OnlyRunChanges
StepH == run.pc = "h" /\ run' = LoopH(d, run) /\ OnlyRunChanges
StepW == run.pc = "w" /\ run' = LoopW(d, run) /\ OnlyRunChanges
StepIh == run.pc = "ih" /\ run' = LoopIh(d, run) /\ OnlyRunChanges
StepIw == run.pc = "iw" /\ run' = LoopIw(d, run) /\ OnlyRunChanges

InitLoops ==
    /\ d \in CallerDescriptors
    /\ order \in {"NCHW", "NHWC"}
    /\ data_im = <<>> /\ data_col = <<>>
    /\ col_out = <<>> /\ im_out = <<>>
    /\ hist = <<>> /\ log = <<>> /\ ptr_out = 0
    /\ path_out = NoPaths
    /\ sizes = <<>>
    /\ check = <<>>
    /\ run = IdleRun
    /\ sel = NoSelect

NextLoops ==
    \/ EnterCall
    \/ StepK \/ StepY \/ StepI \/ StepX
    \/ StepChannel \/ StepKernelRow \/ StepKernelCol
    \/ StepOutputRows \/ StepOutputCols \/ StepOutputCol
    \/ StepC \/ StepBaseH \/ StepBaseW
    \/ StepH \/ StepW \/ StepIh \/ StepIw

\* the code is single-threaded and synchronous: a step that can be taken
\* is taken
SpecLoops == InitLoops /\ [][NextLoops]_vars /\ WF_vars(NextLoops)

---------------------------------------------------------------------------
(* Select<float, CPUContext>: y[i] = x[i * D + idx[i]] for the N rows of x *)

\* DCHECK_LT(a, b) passes
DCHECK_LT(a, b) == a < b

\* for (int i = 0; i < N; ++i): the assertion, where the build has it,
\* then the read and the write; a failed assertion aborts the call
RECURSIVE SelectLoop(_, _, _)
SelectLoop(s, jnk, i) ==
    IF i < s.N
    THEN IF s.dcheck /\ ~DCHECK_LT(s.idx[i], s.D)
         THEN [s EXCEPT !.status = "aborted"]
         ELSE LET at == i * s.D + s.idx[i]
              IN  SelectLoop([s EXCEPT !.y[i] = Load(s.x, at, jnk),
                                       !.reads = Append(@, <<i, s.idx[i], at>>)],
                             jnk, i + 1)
    ELSE [s EXCEPT !.status = "returned"]

Select(s, jnk) == SelectLoop(s, jnk, 0)

\* the index values a caller can pass: ints around [0, D)
IdxValues == -MaxD .. 2 * MaxD

\* debug builds keep the DCHECK, release builds compile it away
InitSelect ==
    /\ d = UnitDescriptor
    /\ order = "NCHW"
    /\ data_im = <<>> /\ data_col = <<>>
    /\ col_out = <<>> /\ im_out = <<>>
    /\ hist = <<>> /\ log = <<>> /\ ptr_out = 0
    /\ path_out = NoPaths
    /\ sizes = <<>>
    /\ check = <<>>
    /\ run = IdleRun
    /\ \E N \in 1 .. MaxN, D \in 1 .. MaxD, dcheck \in BOOLEAN :
         \E idx \in [0 .. N - 1 -> IdxValues] :
            sel = [N |-> N, D |-> D, x |-> Ramp(N * D), idx |-> idx,
                   y |-> Stale(N), dcheck |-> dcheck, reads |-> <<>>,
                   status |-> "idle"]

CallSelect ==
    /\ sel.status = "idle"
    /\ \E jnk \in Junk : sel' = Select(sel, jnk)
    /\ UNCHANGED <<d, order, data_im, data_col, col_out, im_out, hist, log,
                   ptr_out, path_out, sizes, check, run>>

NextSelect == CallSelect

SpecSelect == InitSelect /\ [][NextSelect]_vars

---------------------------------------------------------------------------
(* The mapping the transforms are specified by *)

LastOp == IF hist = <<>> THEN "none" ELSE hist[Len(hist)].op
LastSrc == IF hist = <<>> THEN "none" ELSE hist[Len(hist)].src

InputRow(dd, orow, kr) == orow * dd.stride_h - dd.pad_t + kr * dd.dilation_h
InputCol(dd, ocol, kc) == ocol * dd.stride_w - dd.pad_l + kc * dd.dilation_w

InImage(dd, ir, ic) == ir >= 0 /\ ir < dd.height /\ ic >= 0 /\ ic < dd.width

\* the quintuples <<c, kr, kc, orow, ocol>>
Quintuples(dd) ==
    (0 .. dd.channels - 1) \X (0 .. dd.kernel_h - 1) \X (0 .. dd.kernel_w - 1)
        \X (0 .. output_h(dd) - 1) \X (0 .. output_w(dd) - 1)

Mapped(dd, q) == <<InputRow(dd, q[4], q[2]), InputCol(dd, q[5], q[3])>>

ColIndexNCHW(dd, q) ==
    ((q[1] * dd.kernel_h + q[2]) * dd.kernel_w + q[3])
        * output_h(dd) * output_w(dd) + q[4] * output_w(dd) + q[5]

ImIndexNCHW(dd, c, r, cc) == (c * dd.height + r) * dd.width + cc

ColIndexNHWC(dd, q) ==
    (((q[4] * output_w(dd) + q[5]) * dd.kernel_h + q[2]) * dd.kernel_w + q[3])
        * dd.channels + q[1]

ImIndexNHWC(dd, c, r, cc) == (r * dd.width + cc) * dd.channels + c

RECURSIVE SumOver(_, _)
SumOver(S, f) ==
    IF S = {} THEN 0
    ELSE LET x == CHOOSE y \in S : TRUE IN f[x] + SumOver(S \ {x}, f)

Pixels(dd) ==
    (0 .. dd.channels - 1) \X (0 .. dd.height - 1) \X (0 .. dd.width - 1)

\* the quintuples of channel p[1] whose mapped coordinate is <<p[2], p[3]>>
Touching(dd, p) ==
    {q \in Quintuples(dd) : q[1] = p[1] /\ Mapped(dd, q) = <<p[2], p[3]>>}

---------------------------------------------------------------------------
(* Claims *)

\* C1 (as stated): after Im2col NCHW, whichever path the dispatcher took,
\* the column entry of every quintuple is the signal sample at its mapped
\* coordinate, or 0 when the coordinate is outside the image.
C1_Im2colNCHWMapping ==
    LastOp = "Im2colNCHW" =>
        \A q \in Quintuples(d) :
            col_out[ColIndexNCHW(d, q)] =
                IF InImage(d, Mapped(d, q)[1], Mapped(d, q)[2])
                THEN data_im[ImIndexNCHW(d, q[1], Mapped(d, q)[1],
                                         Mapped(d, q)[2])]
                ELSE 0

\* C2 (as stated): after Col2im NCHW, whichever path the dispatcher took,
\* every destination element is the sum of the column entries of exactly
\* the quintuples mapped to it, each once, and 0 when there is none.
C2_Col2imNCHWSums ==
    LastOp = "Col2imNCHW" =>
        \A p \in Pixels(d) :
            im_out[ImIndexNCHW(d, p[1], p[2], p[3])] =
                SumOver(Touching(d, p),
                        [q \in Touching(d, p) |->
                            ColSource(LastSrc)[ColIndexNCHW(d, q)]])

\* C3 (as stated): with dilation 1 and all paddings 0, the block-copy path,
\* the equal-padding path and the baseline path of Im2col NCHW, each run
\* on its own on the same input, produce identical column buffers.
C3_ThreePathsAgree ==
    (/\ ZeroPadNoDilation(d)
     /\ path_out.block # <<>> /\ path_out.pad # <<>> /\ path_out.base # <<>>)
    => /\ path_out.block = path_out.pad
       /\ path_out.pad = path_out.base

\* C4: whenever pad_t = pad_b and pad_l = pad_r, for every stride and every
\* dilation, the equal-padding path of Im2col NCHW produces the same column
\* buffer as the baseline path.
C4_EqualPadMatchesBaseline ==
    (EqualPadding(d) /\ path_out.pad # <<>> /\ path_out.base # <<>>)
    => path_out.pad = path_out.base

\* C4's case: both paths ran under equal non-zero padding, with a dilation
\* and a stride above 1, and the result holds a padding zero and a sample
C4_Witness ==
    /\ EqualPadding(d) /\ d.pad_t > 0 /\ d.pad_l > 0
    /\ d.dilation_h > 1 /\ d.dilation_w > 1 /\ d.stride_w > 1
    /\ d.kernel_h > 1 /\ d.kernel_w > 1
    /\ path_out.pad # <<>> /\ path_out.base # <<>>
    /\ \E i \in DOMAIN path_out.pad[1] : path_out.pad[1][i] = 0
    /\ \E i \in DOMAIN path_out.pad[1] : path_out.pad[1][i] # 0

\* the last two calls were `first` and then `second`
LastTwo(first, second) ==
    /\ Len(hist) >= 2
    /\ hist[Len(hist) - 1] = first
    /\ hist[Len(hist)] = second

\* C5: the result of Col2im, in both layouts and on every path, is the
\* same as that of a call with the same column buffer and descriptor that
\* starts from other destination contents.
C5_Col2imIgnoresPriorContents ==
    /\ LastOp = "Col2imNCHW" =>
         im_out = Col2imNCHW(d, ColSource(LastSrc), 0, Ramp(ImSize(d))).buf
    /\ LastOp = "Col2imNHWC" =>
         im_out = Col2imNHWC(d, ColSource(LastSrc), 0, Ramp(ImSize(d))).buf

\* C5's case: a first Col2im call on a stale two-channel destination left
\* an element nothing is added to at 0 and another one above 0
C5_Witness ==
    /\ Len(hist) = 1 /\ LastOp \in {"Col2imNCHW", "Col2imNHWC"}
    /\ d.channels > 1
    /\ \E i \in DOMAIN im_out : im_out[i] = 0
    /\ \E i \in DOMAIN im_out : im_out[i] > 0

\* a Col2im call that repeats the call before it: same destination, same
\* column buffer, same descriptor
RepeatedCol2im ==
    /\ hist # <<>>
    /\ LastOp \in {"Col2imNCHW", "Col2imNHWC"}
    /\ hist' = Append(hist, hist[Len(hist)])

\* C6 (as stated): the second of two Col2im calls in a row leaves in every
\* destination element double the value the single call left.
C6_SecondCallDoubles ==
    [][RepeatedCol2im =>
         \A i \in DOMAIN im_out : im_out'[i] = 2 * im_out[i]]_vars

\* C6 (amended): the second of two Col2im calls in a row leaves in every
\* destination element exactly the value the single call left.
C6_SecondCallRepeats ==
    [][RepeatedCol2im => im_out' = im_out]_vars

\* C6's case: Col2im was called twice in a row and the result is not 0
C6_Witness ==
    /\ Len(hist) = 2 /\ hist[1] = hist[2]
    /\ LastOp \in {"Col2imNCHW", "Col2imNHWC"}
    /\ \E i \in DOMAIN im_out : im_out[i] # 0

RECURSIVE Dot(_, _, _)
Dot(x, y, n) == IF n = 0 THEN 0 ELSE x[n - 1] * y[n - 1] + Dot(x, y, n - 1)

\* Im2col and Col2im of one layout were the last two calls, in either
\* order, Col2im reading the caller's column buffer
ForwardAndInverse(fwd, inv) ==
    \/ LastTwo(Call(fwd, "im"), Call(inv, "col"))
    \/ LastTwo(Call(inv, "col"), Call(fwd, "im"))

\* C7 (as stated): <Forward(S), C> = <S, Inverse(C)>, for the NCHW pair
\* and for the NHWC pair.
C7_Adjoint ==
    (\/ ForwardAndInverse("Im2colNCHW", "Col2imNCHW")
     \/ ForwardAndInverse("Im2colNHWC", "Col2imNHWC"))
    => Dot(col_out, data_col, ColSize(d)) = Dot(data_im, im_out, ImSize(d))

UnitStrideNoPad(dd) ==
    /\ dd.stride_h = 1 /\ dd.stride_w = 1 /\ ZeroPadNoDilation(dd)

\* the interior samples of C8
Interior(dd, p) ==
    /\ dd.kernel_h - 1 <= p[2] /\ p[2] <= dd.height - dd.kernel_h
    /\ dd.kernel_w - 1 <= p[3] /\ p[3] <= dd.width - dd.kernel_w

\* C8: for stride 1, dilation 1 and no padding, Inverse(Forward(S)) is
\* kernel_h * kernel_w * S at every interior sample, and S times the number
\* of (kr, kc, orow, ocol) combinations mapped to the sample everywhere.
C8_InverseOfForward ==
    (/\ UnitStrideNoPad(d)
     /\ LastTwo(Call("Im2colNCHW", "im"), Call("Col2imNCHW", "out")))
    => \A p \in Pixels(d) :
         LET j == ImIndexNCHW(d, p[1], p[2], p[3])
         IN  /\ im_out[j] = Cardinality(Touching(d, p)) * data_im[j]
             /\ Interior(d, p) =>
                  im_out[j] = d.kernel_h * d.kernel_w * data_im[j]

\* C8's case: Col2im ran on Im2col's output with a kernel of more than one
\* tap, and the image has an interior sample and one that is not interior
C8_Witness ==
    /\ UnitStrideNoPad(d)
    /\ LastTwo(Call("Im2colNCHW", "im"), Call("Col2imNCHW", "out"))
    /\ d.kernel_h > 1
    /\ \E p \in Pixels(d) :
         /\ Interior(d, p)
         /\ im_out[ImIndexNCHW(d, p[1], p[2], p[3])] > data_im[ImIndexNCHW(d, p[1], p[2], p[3])]
    /\ \E p \in Pixels(d) : ~Interior(d, p)

AnyPadding(dd) ==
    dd.pad_t > 0 \/ dd.pad_l > 0 \/ dd.pad_b > 0 \/ dd.pad_r > 0

\* the quintuples mapped into the padding region
Outside(dd) ==
    {q \in Quintuples(dd) : ~InImage(dd, Mapped(dd, q)[1], Mapped(dd, q)[2])}

\* col with the entries at the indices in P replaced by other values
Replaced(col, P, v) ==
    [i \in DOMAIN col |-> IF i \in P THEN v + 3 * i ELSE col[i]]

OutsideNCHW(dd) == {ColIndexNCHW(dd, q) : q \in Outside(dd)}
OutsideNHWC(dd) == {ColIndexNHWC(dd, q) : q \in Outside(dd)}

\* C9: with any padding > 0, every column entry Forward writes for a
\* coordinate outside the image is 0, in both layouts and on every path;
\* and the result of Inverse is the same when exactly those column entries
\* hold other values.
C9_PaddingBoundary ==
    AnyPadding(d) =>
        /\ LastOp = "Im2colNCHW" => \A i \in OutsideNCHW(d) : col_out[i] = 0
        /\ LastOp = "Im2colNHWC" => \A i \in OutsideNHWC(d) : col_out[i] = 0
        /\ LastOp = "Col2imNCHW" =>
             \A v \in {-1000, 500} :
                im_out = Col2imNCHW(d, Replaced(ColSource(LastSrc),
                                                OutsideNCHW(d), v),
                                    0, Stale(ImSize(d))).buf
        /\ LastOp = "Col2imNHWC" =>
             \A v \in {-1000, 500} :
                im_out = Col2imNHWC(d, Replaced(ColSource(LastSrc),
                                                OutsideNHWC(d), v),
                                    0, Stale(ImSize(d))).buf

\* C9's case: under equal non-zero padding Im2col NCHW wrote a padding
\* entry and Col2im NCHW then read a column buffer with padding entries
C9_Witness ==
    /\ d.pad_t > 0 /\ d.pad_l > 0 /\ EqualPadding(d)
    /\ LastTwo(Call("Im2colNCHW", "im"), Call("Col2imNCHW", "col"))
    /\ OutsideNCHW(d) # {}
    /\ \E i \in OutsideNCHW(d) : col_out[i] = 0 /\ data_col[i] # 0
    /\ \E i \in DOMAIN im_out : im_out[i] # 0

\* the indices written, in the order of the writes
RECURSIVE Written(_)
Written(lg) ==
    IF lg = <<>> THEN <<>>
    ELSE IF Head(lg)[1] = "wr" THEN <<Head(lg)[2]>> \o Written(Tail(lg))
    ELSE Written(Tail(lg))

\* C10: after Im2col NHWC the column entry of every (orow, ocol, kr, kc, c)
\* is the signal sample at its mapped coordinate, or 0 outside the image;
\* and the inner loops visit kernel_h * kernel_w taps per output position:
\* the call writes the entries 0, 1, 2, ... in this order, channels per tap.
C10_Im2colNHWCMapping ==
    LastOp = "Im2colNHWC" =>
        /\ \A q \in Quintuples(d) :
             col_out[ColIndexNHWC(d, q)] =
                IF InImage(d, Mapped(d, q)[1], Mapped(d, q)[2])
                THEN data_im[ImIndexNHWC(d, q[1], Mapped(d, q)[1],
                                         Mapped(d, q)[2])]
                ELSE 0
        /\ Written(log) =
             [i \in 1 .. output_h(d) * output_w(d) * d.kernel_h * d.kernel_w
                           * d.channels |-> i - 1]

\* C10's case: Im2col NHWC ran with two channels, a dilated kernel of
\* several taps and padding, and wrote samples and padding zeros
C10_Witness ==
    /\ LastOp = "Im2colNHWC"
    /\ d.channels > 1 /\ d.kernel_h > 1 /\ d.dilation_h > 1 /\ d.stride_w > 1
    /\ d.pad_t # d.pad_b
    /\ \E i \in DOMAIN col_out : col_out[i] = 0
    /\ \E i \in DOMAIN col_out : col_out[i] > 1

\* C11: after Col2im NHWC every destination element, at index
\* ((r * width + col) * channels + c), is the sum of the column entries of
\* exactly the (orow, ocol, kr, kc) mapped to (r, col), each once, and 0
\* when there is none.
C11_Col2imNHWCSums ==
    LastOp = "Col2imNHWC" =>
        \A p \in Pixels(d) :
            im_out[ImIndexNHWC(d, p[1], p[2], p[3])] =
                SumOver(Touching(d, p),
                        [q \in Touching(d, p) |->
                            ColSource(LastSrc)[ColIndexNHWC(d, q)]])

\* C11's case: Col2im NHWC ran with two channels on a descriptor where one
\* sample is under several taps and another one under none
C11_Witness ==
    /\ LastOp = "Col2imNHWC" /\ LastSrc = "col"
    /\ d.channels > 1
    /\ \E p \in Pixels(d) :
         /\ Cardinality(Touching(d, p)) >= 2
         /\ im_out[ImIndexNHWC(d, p[1], p[2], p[3])] > 0
    /\ \E p \in Pixels(d) :
         /\ Touching(d, p) = {}
         /\ im_out[ImIndexNHWC(d, p[1], p[2], p[3])] = 0

FloorDiv(a, b) == a \div b

PaddedH(dd) == dd.height + dd.pad_t + dd.pad_b
PaddedW(dd) == dd.width + dd.pad_l + dd.pad_r

\* C12 (as stated): on each axis the size the code computes, under each of
\* its two names, is floor((input_size + pad_low + pad_high
\* - (dilation * (kernel - 1) + 1)) / stride) + 1.
C12_OutputSizeIsFloor ==
    sizes # <<>> =>
        LET fh == FloorDiv(PaddedH(d) - (d.dilation_h * (d.kernel_h - 1) + 1),
                           d.stride_h) + 1
            fw == FloorDiv(PaddedW(d) - (d.dilation_w * (d.kernel_w - 1) + 1),
                           d.stride_w) + 1
        IN  /\ sizes[1].output_h = fh /\ sizes[1].height_col = fh
            /\ sizes[1].output_w = fw /\ sizes[1].width_col = fw

\* the computed size is 1 when the padded input equals the effective kernel
SizeOneAtKernel ==
    sizes # <<>> =>
        /\ PaddedH(d) = dkernel_h(d) =>
              sizes[1].output_h = 1 /\ sizes[1].height_col = 1
        /\ PaddedW(d) = dkernel_w(d) =>
              sizes[1].output_w = 1 /\ sizes[1].width_col = 1

\* a step from `before` to `after` computed sizes after the input grew by g
StepOf(before, after, g, stride) ==
    /\ g = stride => after = before + 1
    /\ g < stride => after - before \in {0, 1}

SizeSteps ==
    (sizes # <<>> /\ sizes' # <<>>) =>
        /\ PaddedH(d) >= dkernel_h(d) =>
              /\ StepOf(sizes[1].output_h, sizes'[1].output_h,
                        d'.height - d.height, d.stride_h)
              /\ StepOf(sizes[1].height_col, sizes'[1].height_col,
                        d'.height - d.height, d.stride_h)
        /\ PaddedW(d) >= dkernel_w(d) =>
              /\ StepOf(sizes[1].output_w, sizes'[1].output_w,
                        d'.width - d.width, d.stride_w)
              /\ StepOf(sizes[1].width_col, sizes'[1].width_col,
                        d'.width - d.width, d.stride_w)

\* C13: the computed output size is 1 when input_size + pad_low + pad_high
\* equals the effective kernel; and when the padded input is at least the
\* effective kernel, growing the input by exactly stride grows the computed
\* size by exactly 1, and growing it by less grows the size by 0 or 1.
C13_OutputSizeSteps == [](SizeOneAtKernel) /\ [][SizeSteps]_vars

\* C13's case: sizes were computed again after the input grew, with a
\* stride above 1, a dilated kernel and padding, and reached 3 rows
C13_Witness ==
    /\ sizes # <<>>
    /\ d.height > MaxSize
    /\ d.stride_h > 1 /\ d.dilation_h > 1 /\ d.kernel_h > 1 /\ d.pad_t > 0
    /\ PaddedH(d) > dkernel_h(d)
    /\ sizes[1].output_h >= 3

\* C20: for every 32-bit a and every 32-bit b >= 0 the bounds test, one
\* unsigned comparison of the two casts, returns true exactly when
\* 0 <= a < b, as the two-sided signed test of the baseline path does.
C20_BoundsCheck ==
    check # <<>> =>
        check[1].result = (check[1].a >= 0 /\ check[1].a < check[1].b)

\* C20's case: the test rejected a negative a whose low bits are below b
C20_Witness ==
    /\ check # <<>>
    /\ check[1].a = IntMin /\ check[1].b = IntMax
    /\ check[1].result = FALSE

\* Im2col NCHW just ran on the 4 x 4 image S = [0 .. 15] with the kernel
\* 2 x 2, stride 1, dilation 1 and no padding
ForwardScenario ==
    /\ d = Scenario
    /\ data_im = RampFrom(16, 0)
    /\ LastOp = "Im2colNCHW"

\* C14: in that scenario the computed output is 3 x 3 and the column buffer
\* has 4 rows of 9 entries whose column 0 (flat indices 0, 9, 18, 27) is
\* [0, 1, 4, 5].
C14_ForwardScenario ==
    ForwardScenario =>
        /\ output_h(d) = 3 /\ output_w(d) = 3
        /\ DOMAIN col_out = 0 .. 4 * 9 - 1
        /\ <<col_out[0], col_out[9], col_out[18], col_out[27]>> = <<0, 1, 4, 5>>

\* C14's case: the scenario ran and filled the last column with the
\* bottom-right window
C14_Witness ==
    /\ ForwardScenario
    /\ <<col_out[8], col_out[17], col_out[26], col_out[35]>> = <<10, 11, 14, 15>>

\* Col2im NCHW just ran on the all-ones column buffer of 36 entries, for
\* the 4 x 4 image with the kernel 2 x 2, stride 1, dilation 1, no padding
InverseScenario ==
    /\ d = Scenario
    /\ data_col = Filled(36, 1)
    /\ LastOp = "Col2imNCHW" /\ LastSrc = "col"

\* C15: in that scenario the destination is, row by row,
\* [[1,2,2,1],[2,4,4,2],[2,4,4,2],[1,2,2,1]].
C15_InverseScenario ==
    InverseScenario =>
        im_out = [i \in 0 .. 15 |->
                    <<1, 2, 2, 1, 2, 4, 4, 2, 2, 4, 4, 2, 1, 2, 2, 1>>[i + 1]]

\* C15's case: the scenario ran from a stale destination, an interior
\* sample is under four windows and a corner under one
C15_Witness ==
    /\ InverseScenario
    /\ Len(hist) = 1
    /\ im_out[ImIndexNCHW(d, 0, 1, 1)] = 4
    /\ im_out[ImIndexNCHW(d, 0, 3, 3)] = 1

Forwards == {"Im2colNCHW", "Im2colNHWC"}
Inverses == {"Col2imNCHW", "Col2imNHWC"}

\* the accesses of the last call to the signal buffer, each as the pair
\* <<column index, signal index>>: Forward reads the sample and writes the
\* column entry, Inverse reads the column entry and adds it to the sample
SignalAccesses ==
    IF LastOp \in Forwards
    THEN {<<log[k + 1][2], log[k][2]>> :
            k \in {j \in 1 .. Len(log) - 1 : log[j][1] = "rd"}}
    ELSE {<<log[k - 1][2], log[k][2]>> :
            k \in {j \in 2 .. Len(log) : log[j][1] = "add"}}

QuintOfNCHW(dd, ci) == CHOOSE q \in Quintuples(dd) : ColIndexNCHW(dd, q) = ci
QuintOfNHWC(dd, ci) == CHOOSE q \in Quintuples(dd) : ColIndexNHWC(dd, q) = ci

\* C16 (as stated): on every descriptor whose computed output sizes are
\* >= 1, every index at which Forward reads the signal buffer, and at which
\* Inverse adds into it, is in [0, channels * height * width) and in the row
\* and the channel plane of the mapped coordinate, on every path.
C16_SignalAccessesInRange ==
    /\ LastOp \in {"Im2colNCHW", "Col2imNCHW"} =>
         \A a \in SignalAccesses :
            LET q == QuintOfNCHW(d, a[1])
                r == Mapped(d, q)[1]
            IN  /\ a[2] \in 0 .. ImSize(d) - 1
                /\ r \in 0 .. d.height - 1
                /\ a[2] \div d.width = q[1] * d.height + r
    /\ LastOp \in {"Im2colNHWC", "Col2imNHWC"} =>
         \A a \in SignalAccesses :
            LET q == QuintOfNHWC(d, a[1])
                r == Mapped(d, q)[1]
            IN  /\ a[2] \in 0 .. ImSize(d) - 1
                /\ r \in 0 .. d.height - 1
                /\ a[2] \div (d.width * d.channels) = r
                /\ a[2] % d.channels = q[1]

\* the equal-padding path of Im2col NCHW is the one the dispatcher takes
TakesEqualPadPath(dd) == ~ZeroPadNoDilation(dd) /\ EqualPadding(dd)

\* C17: Forward, in both layouts and on every path, writes every index in
\* [0, channels * kernel_h * kernel_w * output_h * output_w) exactly once
\* and none outside, so the column buffer after the call is the same from
\* other contents before the call; and in the equal-padding and the NHWC
\* traversals the running data_col pointer ends exactly at that size.
C17_ColumnCoverage ==
    LastOp \in Forwards =>
        LET w == Written(log)
        IN  /\ Len(w) = ColSize(d)
            /\ {w[k] : k \in 1 .. Len(w)} = 0 .. ColSize(d) - 1
            /\ \E jnk \in Junk :
                 col_out = IF LastOp = "Im2colNCHW"
                           THEN Im2colNCHW(d, data_im, jnk,
                                           Ramp(ColSize(d))).buf
                           ELSE Im2colNHWC(d, data_im, jnk,
                                           Ramp(ColSize(d))).buf
            /\ (LastOp = "Im2colNHWC" \/ TakesEqualPadPath(d)) =>
                 ptr_out = ColSize(d)

\* C17's case: the equal-padding path ran with a dilated kernel and rows
\* of the window outside the image, and the pointer reached the size
C17_Witness ==
    /\ LastOp = "Im2colNCHW" /\ TakesEqualPadPath(d)
    /\ d.pad_t > 0 /\ d.kernel_h > 1 /\ d.dilation_h > 1 /\ d.channels > 1
    /\ ptr_out = ColSize(d) /\ ptr_out > d.channels
    /\ \E q \in Outside(d) : ~(Mapped(d, q)[1] \in 0 .. d.height - 1)

\* C18: in every call of Col2im, in both layouts and on every path, the
\* zero fill of all channels * height * width destination elements is
\* complete before the first add, and no destination element is set to
\* zero or overwritten after that.
C18_ZeroFillFirst ==
    LastOp \in Inverses =>
        /\ Len(log) >= ImSize(d)
        /\ \A k \in 1 .. ImSize(d) : log[k] = <<"wr", k - 1>>
        /\ \A k \in ImSize(d) + 1 .. Len(log) : log[k][1] # "wr"
        /\ \A i \in 0 .. ImSize(d) - 1 :
             (\A k \in 1 .. Len(log) : log[k] # <<"add", i>>) => im_out[i] = 0

\* C18's case: Col2im ran on two channels and made adds after the zero
\* fill, on a destination where one element gets no add
C18_Witness ==
    /\ LastOp \in Inverses /\ d.channels > 1
    /\ Len(log) > ImSize(d) + 2
    /\ log[Len(log)][1] = "add"
    /\ \E i \in 0 .. ImSize(d) - 1 :
         \A k \in 1 .. Len(log) : log[k] # <<"add", i>>

\* a call that repeats the call before it: same transform, same source
\* buffer, same descriptor
RepeatedCall == hist # <<>> /\ hist' = Append(hist, hist[Len(hist)])

FrameStep ==
    /\ data_im' = data_im
    /\ data_col' = data_col
    /\ (hist' # hist /\ hist'[Len(hist')].op \in Inverses) => col_out' = col_out
    /\ RepeatedCall => col_out' = col_out /\ im_out' = im_out

\* C19 (as stated): Forward leaves the source signal buffer unchanged,
\* Inverse leaves the source column buffer unchanged, and two calls with
\* equal source buffer and descriptor produce equal destination buffers.
C19_Frame == [][FrameStep]_vars

\* C21: on every descriptor whose computed output sizes are >= 1, every
\* call of each of the four transforms returns, the count-down loops of
\* the equal-padding path included, and has then passed exactly
\* channels * kernel_h * kernel_w * output_h * output_w column entries.
C21_Terminates ==
    /\ <>(run.pc = "done")
    /\ [](run.pc = "done" => run.visits = ColSize(d))

\* C21's case: Col2im returned from the equal-padding path after two
\* channels, rows outside the image and several output columns
C21_Witness ==
    /\ run.pc = "done" /\ run.op = "Col2im"
    /\ order = "NCHW" /\ TakesEqualPadPath(d)
    /\ d.channels > 1 /\ d.pad_t > 0 /\ output_w(d) > 1
    /\ run.channel = -1 /\ run.output_rows = 0 /\ run.output_col = 0
    /\ run.visits = ColSize(d)

\* C22 (as stated): every index value that passes the assertion of Select
\* is in [0, D), so the element read for row i is in row i of x (flat
\* indices i * D .. i * D + D - 1) and in [0, N * D); an index outside
\* [0, D) never leads to a read.
C22_SelectReadsInRow ==
    \A k \in 1 .. Len(sel.reads) :
        LET i == sel.reads[k][1]
            v == sel.reads[k][2]
            at == sel.reads[k][3]
        IN  /\ v \in 0 .. sel.D - 1
            /\ at \in i * sel.D .. i * sel.D + sel.D - 1
            /\ at \in 0 .. sel.N * sel.D - 1

=============================================================================
